---- MODULE Spec2Model ----
(***************************************************************************)
(* Query layer of the SpaceX launches API: the routers of                  *)
(* app/routers/launches.py on top of LaunchService                         *)
(* (app/services/launch_service.py), which reads one DynamoDB table keyed  *)
(* by launch_id through scan and get_item calls, each request on a store   *)
(* connection of its own.                                                  *)
(*                                                                         *)
(* Strings that the code inspects (identifiers, names, ISO-8601 dates) are *)
(* sequences of character codes, so that substring containment and the     *)
(* store's lexicographic string comparison are computed, not assumed.      *)
(* An Optional[...] value is a sequence of length at most one.             *)
(***************************************************************************)
EXTENDS Integers, Sequences, FiniteSets, TLC

VARIABLES
    table,      \* the DynamoDB table: slot (scan position) -> raw item, or NoItem
    pc,         \* "idle": no request in progress; "done": a response was sent
    request,    \* the HTTP request being answered
    calls,      \* store calls the request attempted, in order
    response,   \* what table.scan returned to the service for this request
    result,     \* the HTTP response of the endpoint
    follows,    \* TRUE when the request re-issues the previous one with its cursor
    failure,    \* where the store fails while this request is served ("none": nowhere)
    previous,   \* the response to the same request sent just before, or NoResult
    first,      \* the cursor of the request that began the client's iteration
    collected,  \* identifiers of the launches the pages of the iteration returned
    inflight    \* the requests that are served side by side, step by step

vars == <<table, pc, request, calls, response, result, follows, failure, previous, first,
          collected, inflight>>

-----------------------------------------------------------------------------
(* Bounds of the model *)

MaxItems == 3       \* slots of the table
MaxLimit == 2       \* largest limit a request asks for
MaxLaunches == 6    \* slots of the table the summary is computed over
MaxRequests == 2    \* requests served side by side

(* `filters.limit or 100` *)
DefaultLimit == 100

(* get_all_launches(limit=1000) and sorted(...)[:5] of the summary *)
SummaryLimit == 1000
TopRockets == 5

-----------------------------------------------------------------------------
(* Optional values and strings *)

None == <<>>
Some(x) == <<x>>
IsSet(o) == o # None
Val(o) == o[1]

Min(a, b) == IF a <= b THEN a ELSE b

(* str.__contains__ / DynamoDB contains() on a String: case-sensitive substring *)
Contains(s, sub) ==
    \E i \in 0..(Len(s) - Len(sub)) : SubSeq(s, i + 1, i + Len(sub)) = sub

(* Lexicographic comparison of two strings by character code, a < b *)
StrLess(a, b) ==
    \E k \in 1..(Min(Len(a), Len(b)) + 1) :
        /\ \A j \in 1..(k - 1) : a[j] = b[j]
        /\ \/ k > Len(a) /\ k <= Len(b)
           \/ k <= Len(a) /\ k <= Len(b) /\ a[k] < b[k]

StrLeq(a, b) == a = b \/ StrLess(a, b)

-----------------------------------------------------------------------------
(* datetime values: the hour of one fixed day, with or without a UTC       *)
(* offset (whole hours).  The date, minutes and seconds are the same in    *)
(* every timestamp of the model and are left out of the string form.       *)

NaiveDate(h) == [hour |-> h, aware |-> FALSE, off |-> 0]
AwareDate(h, o) == [hour |-> h, aware |-> TRUE, off |-> o]

Abs(n) == IF n < 0 THEN -n ELSE n

(* datetime.isoformat(): "...THH:MM:SS" followed by "+HH:MM" / "-HH:MM" for *)
(* an aware value; '+' is 43, '-' is 45, '0' is 48.                         *)
isoformat(dt) ==
    <<48 + dt.hour>> \o
        (IF dt.aware THEN <<(IF dt.off < 0 THEN 45 ELSE 43), 48 + Abs(dt.off)>> ELSE <<>>)

IsDigit(c) == c \in 48..57

(* datetime.fromisoformat() accepts the string; otherwise it raises ValueError *)
IsIsoFormat(s) ==
    \/ Len(s) = 1 /\ IsDigit(s[1])
    \/ Len(s) = 3 /\ IsDigit(s[1]) /\ s[2] \in {43, 45} /\ IsDigit(s[3])

fromisoformat(s) ==
    IF Len(s) = 1
    THEN NaiveDate(s[1] - 48)
    ELSE AwareDate(s[1] - 48, IF s[2] = 45 THEN -(s[3] - 48) ELSE s[3] - 48)

(* The instant datetime comparison uses: UTC for aware values, the wall    *)
(* clock for naive ones.  Comparing a naive with an aware value raises     *)
(* TypeError.                                                              *)
Instant(dt) == IF dt.aware THEN dt.hour - dt.off ELSE dt.hour
Comparable(a, b) == a.aware = b.aware

-----------------------------------------------------------------------------
(* Raw items of the table.  An item is a mapping from attribute names to   *)
(* values whose domain holds only the attributes the item has.             *)

EmptyMap == [a \in {} |-> None]
NoItem == EmptyMap

Attribute(name, o) == IF IsSet(o) THEN name :> Val(o) ELSE EmptyMap

(* Attribute values carry their type: a DynamoDB String is a Python str, a  *)
(* DynamoDB Number arrives as decimal.Decimal.                              *)
Str(s) == [type |-> "S", value |-> s]
Decimal(n) == [type |-> "N", value |-> n]
Float(n) == [type |-> "float", value |-> n]

(* The partition key of slot i; DynamoDB rejects an empty key string *)
KeyOf(i) == <<48 + i>>
Slots == 1..MaxItems
Keys == {KeyOf(i) : i \in Slots}

RawItem(i, mission, rocket, date, status, flight, site) ==
    ("launch_id" :> Str(KeyOf(i)))
        @@ Attribute("mission_name", mission)
        @@ Attribute("rocket_name", rocket)
        @@ Attribute("launch_date", date)
        @@ Attribute("status", status)
        @@ Attribute("flight_number", flight)
        @@ Attribute("launch_site", site)

Has(item, name) == name \in DOMAIN item

-----------------------------------------------------------------------------
(* boto3.dynamodb.conditions: a FilterExpression is the conjunction (&) of  *)
(* conditions Attr(name).contains / eq / between / gte / lte.  Operands are *)
(* compared by their DynamoDB type: strings by character code, numbers by   *)
(* value.  A condition on a missing attribute is false.                     *)

Condition(attr, op, type, args) == [attr |-> attr, op |-> op, type |-> type, args |-> args]

OperandLeq(type, a, b) == IF type = "S" THEN StrLeq(a, b) ELSE a <= b

Satisfies(item, c) ==
    /\ Has(item, c.attr)
    /\ item[c.attr].type = c.type
    /\ LET v == item[c.attr].value IN
        CASE c.op = "contains" -> Contains(v, c.args[1])
          [] c.op = "eq"       -> v = c.args[1]
          [] c.op = "between"  -> OperandLeq(c.type, c.args[1], v) /\ OperandLeq(c.type, v, c.args[2])
          [] c.op = "gte"      -> OperandLeq(c.type, c.args[1], v)
          [] c.op = "lte"      -> OperandLeq(c.type, v, c.args[1])

Matches(item, kwargs) ==
    Has(kwargs, "FilterExpression") =>
        \A k \in 1..Len(kwargs.FilterExpression) : Satisfies(item, kwargs.FilterExpression[k])

-----------------------------------------------------------------------------
(* table.scan with scan_kwargs.  The store reads the items in its own order *)
(* (the slot order), starting strictly after ExclusiveStartKey, stops after *)
(* Limit items, and applies FilterExpression to the items it has read.      *)
(* LastEvaluatedKey is the key of the last item read, present when the scan *)
(* stopped because Limit was reached.                                       *)

SlotOfKey(key) == IF key \in Keys THEN CHOOSE i \in Slots : KeyOf(i) = key ELSE 0

StartSlot(kwargs) ==
    IF Has(kwargs, "ExclusiveStartKey") THEN SlotOfKey(kwargs.ExclusiveStartKey.launch_id) ELSE 0

RECURSIVE ItemsAfter(_, _)
ItemsAfter(tbl, slot) ==
    IF slot + 1 \notin DOMAIN tbl THEN <<>>
    ELSE (IF tbl[slot + 1] = NoItem THEN <<>> ELSE <<tbl[slot + 1]>>) \o ItemsAfter(tbl, slot + 1)

Examined(tbl, kwargs) ==
    LET rest == ItemsAfter(tbl, StartSlot(kwargs))
    IN SubSeq(rest, 1, Min(kwargs.Limit, Len(rest)))

LimitReached(tbl, kwargs) == Len(ItemsAfter(tbl, StartSlot(kwargs))) >= kwargs.Limit

Scan(tbl, kwargs) ==
    LET read == Examined(tbl, kwargs)
    IN ("Items" :> SelectSeq(read, LAMBDA item : Matches(item, kwargs)))
        @@ (IF LimitReached(tbl, kwargs) /\ Len(read) > 0
            THEN "LastEvaluatedKey" :> [launch_id |-> read[Len(read)].launch_id.value]
            ELSE EmptyMap)

-----------------------------------------------------------------------------
(* Record normalizer: LaunchService._convert_decimals and                  *)
(* LaunchService._item_to_launch_response                                  *)

LaunchStatus == {"success", "failed", "upcoming"}

_convert_decimals(item) ==
    [a \in DOMAIN item |-> IF item[a].type = "N" THEN Float(item[a].value) ELSE item[a]]

RequiredAttributes == {"launch_id", "mission_name", "rocket_name", "launch_date", "status"}

(* Mutant: the status is not checked against LaunchStatus *)
Parses_any_status(item) ==
    /\ RequiredAttributes \subseteq DOMAIN item
    /\ item["launch_date"].type = "S"
    /\ IsIsoFormat(item["launch_date"].value)

(* KeyError on a missing required attribute, ValueError on a date that is   *)
(* no ISO-8601 string or a status outside LaunchStatus                      *)
Parses(item) ==
    /\ RequiredAttributes \subseteq DOMAIN item
    /\ item["launch_date"].type = "S"
    /\ IsIsoFormat(item["launch_date"].value)
    /\ item["status"].value \in LaunchStatus

OptionalValue(item, name) == IF Has(item, name) THEN Some(item[name].value) ELSE None

LaunchResponse(item) ==
    [id            |-> item["launch_id"].value,
     mission_name  |-> item["mission_name"].value,
     rocket_name   |-> item["rocket_name"].value,
     launch_date   |-> fromisoformat(item["launch_date"].value),
     status        |-> item["status"].value,
     details       |-> OptionalValue(item, "details"),
     flight_number |-> OptionalValue(item, "flight_number"),
     launch_site   |-> OptionalValue(item, "launch_site")]

(* Some(launch), or None when the item raises ValueError *)
_item_to_launch_response(item) ==
    IF Parses(item) THEN Some(LaunchResponse(_convert_decimals(item))) ELSE None

(* for item in response.get('Items', []): try ... except ValueError: continue *)
RECURSIVE CollectLaunches(_)
CollectLaunches(items) ==
    IF items = <<>> THEN <<>>
    ELSE _item_to_launch_response(Head(items)) \o CollectLaunches(Tail(items))

-----------------------------------------------------------------------------
(* launches.sort(key=lambda x: x.launch_date[, reverse=True]): a stable     *)
(* sort; comparing a naive with an aware datetime raises TypeError, which   *)
(* any list holding both kinds runs into.                                   *)

SortRaises(launches) ==
    \E i, j \in 1..Len(launches) : ~Comparable(launches[i].launch_date, launches[j].launch_date)

GoesBefore(x, y, reverse) ==
    IF reverse THEN Instant(x.launch_date) > Instant(y.launch_date)
    ELSE Instant(x.launch_date) < Instant(y.launch_date)

RECURSIVE InsertSorted(_, _, _)
InsertSorted(sorted, x, reverse) ==
    IF sorted = <<>> THEN <<x>>
    ELSE IF GoesBefore(x, Head(sorted), reverse) THEN <<x>> \o sorted
    ELSE <<Head(sorted)>> \o InsertSorted(Tail(sorted), x, reverse)

RECURSIVE SortedPrefix(_, _, _)
SortedPrefix(launches, n, reverse) ==
    IF n = 0 THEN <<>>
    ELSE InsertSorted(SortedPrefix(launches, n - 1, reverse), launches[n], reverse)

Sort(launches, reverse) == SortedPrefix(launches, Len(launches), reverse)

-----------------------------------------------------------------------------
(* LaunchService: the part the three page queries share                    *)

Call(op, kwargs) == [op |-> op, kwargs |-> kwargs]

(* Where the store fails during a request, if it does *)
Faults == {"none", "acquire", "table", "scan", "get_item"}

(* Python truthiness of an Optional[str] and of an Optional[int] *)
TruthyStr(o) == IsSet(o) /\ Val(o) # <<>>
TruthyInt(o) == IsSet(o) /\ Val(o) # 0

(* Mutant: the cursor is not handed to the scan *)
ExclusiveStartKey_dropped(last_evaluated_key) == EmptyMap

ExclusiveStartKey(last_evaluated_key) ==
    IF TruthyStr(last_evaluated_key)
    THEN "ExclusiveStartKey" :> [launch_id |-> Val(last_evaluated_key)]
    ELSE EmptyMap

(* async with dynamodb_resource as dynamodb; await dynamodb.Table(...);     *)
(* await table.scan(...).  The connection is released when the block is     *)
(* left, also by an exception.  A scan the store cannot serve or rejects    *)
(* (DynamoDB answers ValidationException to a BETWEEN whose lower bound is  *)
(* above the upper one, DynamoDB Local evaluates it) raises ClientError.    *)
(* Mutant: the singleton service keeps the position of its last scan and    *)
(* resumes there when the request brings no cursor                          *)
ExecuteScan_resuming(tbl, kwargs, fault) ==
    LET resumed == IF ~Has(kwargs, "ExclusiveStartKey") /\ Has(response, "LastEvaluatedKey")
                   THEN kwargs @@ ("ExclusiveStartKey" :> response["LastEvaluatedKey"])
                   ELSE kwargs
        acquire == Call("acquire", EmptyMap)
        lookup  == Call("table", EmptyMap)
        scan    == Call("scan", resumed)
        release == Call("release", EmptyMap)
    IN  CASE fault = "acquire" -> [failed |-> TRUE, calls |-> <<acquire>>, response |-> EmptyMap]
          [] fault = "table"   -> [failed |-> TRUE, calls |-> <<acquire, lookup, release>>,
                                   response |-> EmptyMap]
          [] fault = "scan"    -> [failed |-> TRUE, calls |-> <<acquire, lookup, scan, release>>,
                                   response |-> EmptyMap]
          [] OTHER             -> [failed |-> FALSE, calls |-> <<acquire, lookup, scan, release>>,
                                   response |-> Scan(tbl, resumed)]

ExecuteScan(tbl, kwargs, fault) ==
    LET acquire == Call("acquire", EmptyMap)
        lookup  == Call("table", EmptyMap)
        scan    == Call("scan", kwargs)
        release == Call("release", EmptyMap)
    IN  CASE fault = "acquire" -> [failed |-> TRUE, calls |-> <<acquire>>, response |-> EmptyMap]
          [] fault = "table"   -> [failed |-> TRUE, calls |-> <<acquire, lookup, release>>,
                                   response |-> EmptyMap]
          [] fault = "scan"    -> [failed |-> TRUE, calls |-> <<acquire, lookup, scan, release>>,
                                   response |-> EmptyMap]
          [] OTHER             -> [failed |-> FALSE, calls |-> <<acquire, lookup, scan, release>>,
                                   response |-> Scan(tbl, kwargs)]

HasLastEvaluatedKey(resp) ==
    Has(resp, "LastEvaluatedKey") /\ Has(resp["LastEvaluatedKey"], "launch_id")

(* Mutant: the cursor is taken from the last item the scan returned *)
last_key_of_items(resp) ==
    IF HasLastEvaluatedKey(resp) /\ resp["Items"] # <<>>
    THEN Some(resp["Items"][Len(resp["Items"])].launch_id.value)
    ELSE None

last_key(resp) ==
    IF HasLastEvaluatedKey(resp) THEN Some(resp["LastEvaluatedKey"].launch_id) ELSE None

(* Mutant: has_more tells whether the page holds items *)
has_more_of_items(resp) == resp["Items"] # <<>>

has_more(resp) == HasLastEvaluatedKey(resp)

Raised(message, cause, exec) ==
    [ok |-> FALSE, launches |-> <<>>, last_key |-> None, has_more |-> FALSE,
     error |-> <<message, cause>>, calls |-> exec.calls, response |-> exec.response]

Returned(launches, exec) ==
    [ok |-> TRUE, launches |-> launches, last_key |-> last_key(exec.response),
     has_more |-> has_more(exec.response),
     error |-> <<>>, calls |-> exec.calls, response |-> exec.response]

(* Mutant: a failure of the store yields an empty page *)
Page_empty_on_failure(exec, reverse, fault, message) ==
    IF exec.failed THEN Returned(<<>>, [exec EXCEPT !.response = "Items" :> <<>>])
    ELSE LET launches == CollectLaunches(exec.response["Items"]) IN
        IF SortRaises(launches) THEN Raised(message, "TypeError", exec)
        ELSE Returned(Sort(launches, reverse), exec)

(* Normalise, sort, return the page; `reverse` is the sort direction *)
Page(exec, reverse, fault, message) ==
    IF exec.failed THEN Raised(message, fault, exec)
    ELSE LET launches == CollectLaunches(exec.response["Items"]) IN
        IF SortRaises(launches) THEN Raised(message, "TypeError", exec)
        ELSE Returned(Sort(launches, reverse), exec)

-----------------------------------------------------------------------------
(* Mutant: the scan is issued with the default limit, not the caller's *)
Service_get_all_launches_unbounded(tbl, limit, last_evaluated_key, fault) ==
    LET scan_kwargs == ("Limit" :> DefaultLimit) @@ ExclusiveStartKey(last_evaluated_key)
    IN Page(ExecuteScan(tbl, scan_kwargs, fault), TRUE, fault, "Error obteniendo lanzamientos")

(* LaunchService.get_all_launches *)

Service_get_all_launches(tbl, limit, last_evaluated_key, fault) ==
    LET scan_kwargs == ("Limit" :> limit) @@ ExclusiveStartKey(last_evaluated_key)
    IN Page(ExecuteScan(tbl, scan_kwargs, fault), TRUE, fault, "Error obteniendo lanzamientos")

(* Mutant: the date-range page is sorted most recent first *)
Service_get_launches_by_date_range_reversed(tbl, start_date, end_date, limit, last_evaluated_key, fault) ==
    LET filter_expression ==
            <<Condition("launch_date", "between", "S",
                        <<isoformat(start_date), isoformat(end_date)>>)>>
        scan_kwargs == ("FilterExpression" :> filter_expression) @@ ("Limit" :> limit)
                            @@ ExclusiveStartKey(last_evaluated_key)
    IN Page(ExecuteScan(tbl, scan_kwargs, fault), TRUE, fault,
            "Error obteniendo lanzamientos por fecha")

(* LaunchService.get_launches_by_date_range *)

Service_get_launches_by_date_range(tbl, start_date, end_date, limit, last_evaluated_key, fault) ==
    LET filter_expression ==
            <<Condition("launch_date", "between", "S",
                        <<isoformat(start_date), isoformat(end_date)>>)>>
        scan_kwargs == ("FilterExpression" :> filter_expression) @@ ("Limit" :> limit)
                            @@ ExclusiveStartKey(last_evaluated_key)
    IN Page(ExecuteScan(tbl, scan_kwargs, fault), FALSE, fault,
            "Error obteniendo lanzamientos por fecha")

(* LaunchService.filter_launches *)

When(cond, c) == IF cond THEN <<c>> ELSE <<>>

DateConditions(filters) ==
    IF IsSet(filters.start_date) /\ IsSet(filters.end_date)
    THEN <<Condition("launch_date", "between", "S",
                     <<isoformat(Val(filters.start_date)), isoformat(Val(filters.end_date))>>)>>
    ELSE IF IsSet(filters.start_date)
    THEN <<Condition("launch_date", "gte", "S", <<isoformat(Val(filters.start_date))>>)>>
    ELSE IF IsSet(filters.end_date)
    THEN <<Condition("launch_date", "lte", "S", <<isoformat(Val(filters.end_date))>>)>>
    ELSE <<>>

FlightNumberConditions(filters) ==
    IF TruthyInt(filters.flight_number_min) /\ TruthyInt(filters.flight_number_max)
    THEN <<Condition("flight_number", "between", "N",
                     <<Val(filters.flight_number_min), Val(filters.flight_number_max)>>)>>
    ELSE IF TruthyInt(filters.flight_number_min)
    THEN <<Condition("flight_number", "gte", "N", <<Val(filters.flight_number_min)>>)>>
    ELSE IF TruthyInt(filters.flight_number_max)
    THEN <<Condition("flight_number", "lte", "N", <<Val(filters.flight_number_max)>>)>>
    ELSE <<>>

filter_expressions(filters) ==
    When(TruthyStr(filters.mission_name),
         Condition("mission_name", "contains", "S", <<Val(filters.mission_name)>>))
    \o When(TruthyStr(filters.rocket_name),
            Condition("rocket_name", "contains", "S", <<Val(filters.rocket_name)>>))
    \o When(IsSet(filters.status), Condition("status", "eq", "S", <<Val(filters.status)>>))
    \o When(TruthyStr(filters.launch_site),
            Condition("launch_site", "contains", "S", <<Val(filters.launch_site)>>))
    \o DateConditions(filters)
    \o FlightNumberConditions(filters)

(* Mutant: the filtered page is sorted like a page by date range *)
Service_filter_launches_ascending(tbl, filters, fault) ==
    LET expressions == filter_expressions(filters)
        scan_kwargs ==
            ("Limit" :> (IF TruthyInt(filters.limit) THEN Val(filters.limit) ELSE DefaultLimit))
                @@ (IF expressions # <<>> THEN "FilterExpression" :> expressions ELSE EmptyMap)
                @@ ExclusiveStartKey(filters.last_evaluated_key)
    IN Page(ExecuteScan(tbl, scan_kwargs, fault), FALSE, fault, "Error filtrando lanzamientos")

Service_filter_launches(tbl, filters, fault) ==
    LET expressions == filter_expressions(filters)
        scan_kwargs ==
            ("Limit" :> (IF TruthyInt(filters.limit) THEN Val(filters.limit) ELSE DefaultLimit))
                @@ (IF expressions # <<>> THEN "FilterExpression" :> expressions ELSE EmptyMap)
                @@ ExclusiveStartKey(filters.last_evaluated_key)
    IN Page(ExecuteScan(tbl, scan_kwargs, fault), TRUE, fault, "Error filtrando lanzamientos")

(* LaunchService.get_launch_by_id: a point lookup; a malformed item raises  *)

GetItem(tbl, key) ==
    IF SlotOfKey(key) # 0 /\ tbl[SlotOfKey(key)] # NoItem
    THEN "Item" :> tbl[SlotOfKey(key)]
    ELSE EmptyMap

(* Mutant: the connection is given back only when get_item returns *)
ExecuteGetItem_leaking(tbl, key, fault) ==
    LET acquire == Call("acquire", EmptyMap)
        lookup  == Call("table", EmptyMap)
        get     == Call("get_item", "Key" :> [launch_id |-> key])
        release == Call("release", EmptyMap)
    IN  CASE fault = "acquire"  -> [failed |-> TRUE, calls |-> <<acquire>>, response |-> EmptyMap]
          [] fault = "table"    -> [failed |-> TRUE, calls |-> <<acquire, lookup>>,
                                    response |-> EmptyMap]
          [] fault = "get_item" -> [failed |-> TRUE, calls |-> <<acquire, lookup, get>>,
                                    response |-> EmptyMap]
          [] OTHER              -> [failed |-> FALSE, calls |-> <<acquire, lookup, get, release>>,
                                    response |-> GetItem(tbl, key)]

ExecuteGetItem(tbl, key, fault) ==
    LET acquire == Call("acquire", EmptyMap)
        lookup  == Call("table", EmptyMap)
        get     == Call("get_item", "Key" :> [launch_id |-> key])
        release == Call("release", EmptyMap)
    IN  CASE fault = "acquire"  -> [failed |-> TRUE, calls |-> <<acquire>>, response |-> EmptyMap]
          [] fault = "table"    -> [failed |-> TRUE, calls |-> <<acquire, lookup, release>>,
                                    response |-> EmptyMap]
          [] fault = "get_item" -> [failed |-> TRUE, calls |-> <<acquire, lookup, get, release>>,
                                    response |-> EmptyMap]
          [] OTHER              -> [failed |-> FALSE, calls |-> <<acquire, lookup, get, release>>,
                                    response |-> GetItem(tbl, key)]

(* Mutant: a malformed item is skipped, as the page queries do *)
Service_get_launch_by_id_skipping(tbl, launch_id, fault) ==
    LET exec == ExecuteGetItem(tbl, launch_id, fault)
        message == "Error obteniendo lanzamiento"
    IN  IF exec.failed THEN Raised(message, fault, exec)
        ELSE IF Has(exec.response, "Item")
        THEN Returned(_item_to_launch_response(exec.response["Item"]), exec)
        ELSE Returned(<<>>, exec)

Service_get_launch_by_id(tbl, launch_id, fault) ==
    LET exec == ExecuteGetItem(tbl, launch_id, fault)
        message == "Error obteniendo lanzamiento"
    IN  IF exec.failed THEN Raised(message, fault, exec)
        ELSE IF Has(exec.response, "Item")
        THEN (IF _item_to_launch_response(exec.response["Item"]) = None
              THEN Raised(message, "ValueError", exec)
              ELSE Returned(_item_to_launch_response(exec.response["Item"]), exec))
        ELSE Returned(<<>>, exec)

-----------------------------------------------------------------------------
(* Routers of app/routers/launches.py.  An endpoint yields the HTTP         *)
(* response together with the store calls made and the scan response.       *)

NoCalls == [calls |-> <<>>, response |-> EmptyMap]

Http(code, launches, key, more, detail, svc) ==
    [http |-> [code |-> code, launches |-> launches, count |-> Len(launches),
               last_evaluated_key |-> key, has_more |-> more, detail |-> detail],
     calls |-> svc.calls, response |-> svc.response]

(* LaunchListResponse(...) on success, HTTPException(500, str(e)) otherwise *)
LaunchListResponse(svc) ==
    IF svc.ok THEN Http(200, svc.launches, svc.last_key, svc.has_more, <<>>, svc)
    ELSE Http(500, <<>>, None, FALSE, svc.error, svc)

BadRequest == Http(400, <<>>, None, FALSE,
                   <<"La fecha de inicio debe ser anterior a la fecha de fin">>, NoCalls)

CompareError == Http(500, <<>>, None, FALSE, <<"TypeError">>, NoCalls)

router_get_all_launches(tbl, req, fault) ==
    LaunchListResponse(Service_get_all_launches(tbl, req.limit, req.last_evaluated_key, fault))

(* Mutant: only start_date > end_date is refused *)
router_get_launches_by_date_range_strict(tbl, req, fault) ==
    IF ~Comparable(req.start_date, req.end_date) THEN CompareError
    ELSE IF Instant(req.start_date) > Instant(req.end_date) THEN BadRequest
    ELSE LaunchListResponse(
            Service_get_launches_by_date_range(tbl, req.start_date, req.end_date, req.limit,
                                               req.last_evaluated_key, fault))

router_get_launches_by_date_range(tbl, req, fault) ==
    IF ~Comparable(req.start_date, req.end_date) THEN CompareError
    ELSE IF Instant(req.start_date) >= Instant(req.end_date) THEN BadRequest
    ELSE LaunchListResponse(
            Service_get_launches_by_date_range(tbl, req.start_date, req.end_date, req.limit,
                                               req.last_evaluated_key, fault))

router_filter_launches(tbl, req, fault) ==
    LET filters == req.filters IN
    IF IsSet(filters.start_date) /\ IsSet(filters.end_date)
        /\ ~Comparable(Val(filters.start_date), Val(filters.end_date)) THEN CompareError
    ELSE IF IsSet(filters.start_date) /\ IsSet(filters.end_date)
        /\ Instant(Val(filters.start_date)) >= Instant(Val(filters.end_date)) THEN BadRequest
    ELSE LaunchListResponse(Service_filter_launches(tbl, filters, fault))

(* Mutant: an absent launch is answered like any other service result *)
router_get_launch_by_id_no_404(tbl, req, fault) ==
    LaunchListResponse(Service_get_launch_by_id(tbl, req.launch_id, fault))

(* The body of a 200 response is the launch itself, held in `launches` *)
router_get_launch_by_id(tbl, req, fault) ==
    LET svc == Service_get_launch_by_id(tbl, req.launch_id, fault) IN
        IF svc.ok /\ svc.launches = <<>>
        THEN Http(404, <<>>, None, FALSE, <<"Lanzamiento no encontrado">>, svc)
        ELSE LaunchListResponse(svc)

-----------------------------------------------------------------------------
(* get_launches_summary: statistics over one List call of limit 1000        *)

CountStatus(launches, status) ==
    Cardinality({k \in 1..Len(launches) : launches[k].status = status})

(* rocket_counts[name] = rocket_counts.get(name, 0) + 1; a dict keeps its   *)
(* keys in the order of their first insertion                               *)
Increment(counts, name) ==
    IF \E k \in 1..Len(counts) : counts[k].rocket_name = name
    THEN [k \in 1..Len(counts) |->
            IF counts[k].rocket_name = name
            THEN [counts[k] EXCEPT !.count = @ + 1] ELSE counts[k]]
    ELSE Append(counts, [rocket_name |-> name, count |-> 1])

RECURSIVE CountRockets(_, _)
CountRockets(launches, n) ==
    IF n = 0 THEN <<>>
    ELSE Increment(CountRockets(launches, n - 1), launches[n].rocket_name)

rocket_counts(launches) == CountRockets(launches, Len(launches))

(* sorted(rocket_counts.items(), key=lambda x: x[1], reverse=True): stable, *)
(* entries of equal count keep the order they have in the dict              *)
RECURSIVE InsertByCount(_, _)
InsertByCount(sorted, x) ==
    IF sorted = <<>> THEN <<x>>
    ELSE IF x.count > Head(sorted).count THEN <<x>> \o sorted
    ELSE <<Head(sorted)>> \o InsertByCount(Tail(sorted), x)

RECURSIVE SortedByCount(_, _)
SortedByCount(counts, n) ==
    IF n = 0 THEN <<>>
    ELSE InsertByCount(SortedByCount(counts, n - 1), counts[n])

(* Mutant: the list is not cut after the fifth rocket *)
most_used_rockets_all(launches) ==
    SortedByCount(rocket_counts(launches), Len(rocket_counts(launches)))

most_used_rockets(launches) ==
    LET sorted == SortedByCount(rocket_counts(launches), Len(rocket_counts(launches)))
    IN SubSeq(sorted, 1, Min(TopRockets, Len(sorted)))

(* round(num / den, 2) in hundredths: the nearest multiple of 0.01, the     *)
(* even one when two are equally near.  (The float quotient of the code     *)
(* rounds like the exact one unless it lies within a float error of a tie,  *)
(* and successful / total * 100 has a tie only for totals divisible by 32.) *)
round2(num, den) ==
    LET floor == (num * 100) \div den
        twice == 2 * ((num * 100) % den)
    IN  IF twice < den THEN floor
        ELSE IF twice > den THEN floor + 1
        ELSE IF floor % 2 = 0 THEN floor ELSE floor + 1

(* Mutant: the rate is cut after two decimals *)
success_rate_truncated(successful, total) ==
    IF total > 0 THEN (successful * 100 * 100) \div total ELSE 0

(* round((successful_launches / total_launches * 100), 2) if total_launches *)
(* > 0 else 0, in hundredths of a percent                                   *)
success_rate(successful, total) ==
    IF total > 0 THEN round2(successful * 100, total) ELSE 0

Summary(launches) ==
    [total_launches      |-> Len(launches),
     successful_launches |-> CountStatus(launches, "success"),
     failed_launches     |-> CountStatus(launches, "failed"),
     upcoming_launches   |-> CountStatus(launches, "upcoming"),
     success_rate        |-> success_rate(CountStatus(launches, "success"), Len(launches)),
     most_used_rockets   |-> most_used_rockets(launches)]

(* The body of a 200 response is held in the field `summary` *)
router_get_launches_summary(tbl, req, fault) ==
    LET svc == Service_get_all_launches(tbl, SummaryLimit, None, fault) IN
        IF svc.ok
        THEN [Http(200, <<>>, None, FALSE, <<>>, svc) EXCEPT
                !.http = @ @@ ("summary" :> Summary(svc.launches))]
        ELSE LaunchListResponse(svc)

Endpoint(tbl, req, fault) ==
    CASE req.op = "list"       -> router_get_all_launches(tbl, req, fault)
      [] req.op = "summary"    -> router_get_launches_summary(tbl, req, fault)
      [] req.op = "get"        -> router_get_launch_by_id(tbl, req, fault)
      [] req.op = "date_range" -> router_get_launches_by_date_range(tbl, req, fault)
      [] req.op = "filter"     -> router_filter_launches(tbl, req, fault)

-----------------------------------------------------------------------------
(* Requests *)

ListRequest(limit, cursor) == [op |-> "list", limit |-> limit, last_evaluated_key |-> cursor]

DateRangeRequest(start, end, limit, cursor) ==
    [op |-> "date_range", start_date |-> start, end_date |-> end, limit |-> limit,
     last_evaluated_key |-> cursor]

LaunchFilter(mission, rocket, status, start, end, site, fmin, fmax, limit, cursor) ==
    [mission_name |-> mission, rocket_name |-> rocket, status |-> status,
     start_date |-> start, end_date |-> end, launch_site |-> site,
     flight_number_min |-> fmin, flight_number_max |-> fmax,
     limit |-> limit, last_evaluated_key |-> cursor]

FilterRequest(filters) == [op |-> "filter", filters |-> filters]

GetRequest(launch_id) == [op |-> "get", launch_id |-> launch_id]

SummaryRequest == [op |-> "summary"]

PageOps == {"list", "date_range", "filter"}

Cursor(req) == IF req.op = "filter" THEN req.filters.last_evaluated_key ELSE req.last_evaluated_key

(* The same query again, with the cursor the last page gave *)
WithCursor(req, cursor) ==
    IF req.op = "filter" THEN [req EXCEPT !.filters.last_evaluated_key = cursor]
    ELSE [req EXCEPT !.last_evaluated_key = cursor]

Limits == 1..MaxLimit
Cursors == {None} \cup {Some(k) : k \in Keys}

NoRequest == [op |-> "none"]
NoResult == [code |-> 0, launches |-> <<>>, count |-> 0, last_evaluated_key |-> None,
             has_more |-> FALSE, detail |-> <<>>]

-----------------------------------------------------------------------------
(* Actions: one per endpoint, answering a whole request *)

IdsOf(launches) == [k \in 1..Len(launches) |-> launches[k].id]

(* The endpoint answers req.  `kind` tells what the client does: "new", a   *)
(* query of its own; "follow", the next page of the query it iterates;      *)
(* "repeat", the request it has just made, once more.                       *)
Answer(req, fault, kind) ==
    LET out == Endpoint(table, req, fault) IN
        /\ pc' = "done"
        /\ request' = req
        /\ calls' = out.calls
        /\ response' = out.response
        /\ result' = out.http
        /\ failure' = fault
        /\ follows' = IF kind = "repeat" THEN follows ELSE kind = "follow"
        /\ previous' = IF kind = "repeat" THEN result ELSE NoResult
        /\ first' = IF kind # "new" THEN first
                    ELSE IF req.op \in PageOps THEN Cursor(req) ELSE None
        /\ collected' = CASE kind = "new"    -> IdsOf(out.http.launches)
                          [] kind = "follow" -> collected \o IdsOf(out.http.launches)
                          [] kind = "repeat" -> collected
        /\ UNCHANGED <<table, inflight>>

Respond(req, fault, followed) == Answer(req, fault, IF followed THEN "follow" ELSE "new")

GetAllLaunches(faults) ==
    /\ pc = "idle"
    /\ \E limit \in Limits, cursor \in Cursors, fault \in faults :
        Respond(ListRequest(limit, cursor), fault, FALSE)

GetLaunchesByDateRange(ranges, faults) ==
    /\ pc = "idle"
    /\ \E range \in ranges, limit \in Limits, cursor \in Cursors, fault \in faults :
        Respond(DateRangeRequest(range[1], range[2], limit, cursor), fault, FALSE)

FilterLaunches(filterSet, faults) ==
    /\ pc = "idle"
    /\ \E filters \in filterSet, fault \in faults :
        Respond(FilterRequest(filters), fault, FALSE)

GetLaunchById(faults) ==
    /\ pc = "idle"
    /\ \E key \in Keys, fault \in faults :
        Respond(GetRequest(key), fault, FALSE)

GetLaunchesSummary(faults) ==
    /\ pc = "idle"
    /\ \E fault \in faults : Respond(SummaryRequest, fault, FALSE)

(* The client asks for the next page: the same request with the cursor of   *)
(* the page it holds                                                        *)
FollowCursor(faults) ==
    /\ pc = "done"
    /\ request.op \in PageOps
    /\ result.code = 200
    /\ result.has_more
    /\ \E fault \in faults :
        Respond(WithCursor(request, result.last_evaluated_key), fault, TRUE)

(* The client makes the request it has just made once more *)
Repeat(faults) ==
    /\ pc = "done"
    /\ request.op \in PageOps \cup {"get"}
    /\ \E fault \in faults : Answer(request, fault, "repeat")

(* Requests served side by side.  The handlers are coroutines: the event   *)
(* loop passes control at their awaits, which are the store calls, so a     *)
(* step of a request runs up to its next store call, and from the last one  *)
(* to its response.                                                         *)
Requests == 1..MaxRequests

Waiting == [stage |-> "wait", op |-> "none", fault |-> "none", todo |-> <<>>, conn |-> 0,
            code |-> 0]

(* db_client.get_dynamodb_resource(): a session and a resource of its own   *)
(* for every call, named by the first number that names none of the         *)
(* connections held                                                         *)
get_dynamodb_resource(held) ==
    CHOOSE c \in Requests : c \notin held /\ \A d \in 1..(c - 1) : d \in held

(* The handler starts: the store calls it is going to make, one by one, and *)
(* the status code it will answer with                                      *)
Accept(r, served) ==
    /\ inflight[r].stage = "wait"
    /\ \E s \in served :
        LET out == Endpoint(table, s.request, s.fault) IN
            inflight' = [inflight EXCEPT ![r] =
                            [stage |-> IF out.calls = <<>> THEN "end" ELSE "run",
                             op |-> s.request.op, fault |-> s.fault,
                             todo |-> [k \in 1..Len(out.calls) |-> out.calls[k].op],
                             conn |-> 0, code |-> out.http.code]]
    /\ UNCHANGED <<table, pc, request, calls, response, result, follows, failure, previous,
                   first, collected>>

(* The next store call of request r: entering `async with` opens the        *)
(* connection, unless that is where the store fails; leaving it, normally   *)
(* or by an exception, gives the connection back.  After its last call the  *)
(* handler runs to its response without another await.                      *)
StoreCall(r) ==
    /\ inflight[r].stage = "run"
    /\ inflight[r].todo # <<>>
    /\ LET call == Head(inflight[r].todo)
           entered == call = "acquire" /\ inflight[r].fault # "acquire"
           held == {inflight[q].conn : q \in Requests} \ {0}
       IN  inflight' = [inflight EXCEPT
                            ![r].stage = IF Len(inflight[r].todo) = 1 THEN "end" ELSE @,
                            ![r].todo = Tail(@),
                            ![r].conn = IF entered THEN get_dynamodb_resource(held)
                                        ELSE IF call = "release" THEN 0 ELSE @]
    /\ UNCHANGED <<table, pc, request, calls, response, result, follows, failure, previous,
                   first, collected>>

InitRequest ==
    /\ inflight = [r \in Requests |-> Waiting]
    /\ pc = "idle"
    /\ request = NoRequest
    /\ calls = <<>>
    /\ response = EmptyMap
    /\ result = NoResult
    /\ follows = FALSE
    /\ failure = "none"
    /\ previous = NoResult
    /\ first = None
    /\ collected = <<>>

-----------------------------------------------------------------------------
(* Table contents.  A shape gives the attributes of an item but its key.    *)

Shape(mission, rocket, date, status, flight, site) ==
    [absent |-> FALSE, mission |-> mission, rocket |-> rocket, date |-> date,
     status |-> status, flight |-> flight, site |-> site]

Absent == [absent |-> TRUE]

ItemOf(i, shape) ==
    IF shape.absent THEN NoItem
    ELSE RawItem(i, shape.mission, shape.rocket, shape.date, shape.status, shape.flight,
                 shape.site)

TableOf(shapes) == [i \in Slots |-> ItemOf(i, shapes[i])]

(* "Aa", "F", "K" *)
MissionAa == <<65, 97>>
RocketF == <<70>>
SiteK == <<75>>

Launched(dt, status) ==
    Shape(Some(Str(MissionAa)), Some(Str(RocketF)), Some(Str(isoformat(dt))),
          Some(Str(status)), Some(Decimal(1)), Some(Str(SiteK)))

(* Items that differ in their timestamp, and two malformed ones: one with  *)
(* no mission name, one with an unknown status                              *)
PagingShapes ==
    {Absent}
    \cup {Launched(dt, "success") : dt \in {AwareDate(1, 0), AwareDate(2, -2), NaiveDate(2)}}
    \cup {[Launched(AwareDate(1, 0), "success") EXCEPT !.mission = None],
          Launched(AwareDate(2, 0), "scrubbed")}

(* <<start_date, end_date>>: in order, inverted, equal, not comparable *)
PagingRanges ==
    {<<AwareDate(1, 0), AwareDate(3, 0)>>, <<AwareDate(3, 0), AwareDate(1, 0)>>,
     <<AwareDate(2, 0), AwareDate(2, 0)>>, <<NaiveDate(1), AwareDate(3, 0)>>}

PagingFaults == {"none", "scan"}

(* The failures a scan request and a point lookup can meet *)
ScanFaults == Faults \ {"get_item"}
GetFaults == Faults \ {"scan"}

NoFilter(limit, cursor) ==
    LaunchFilter(None, None, None, None, None, None, None, None, limit, cursor)

PagingFilters ==
    {[NoFilter(limit, cursor) EXCEPT !.start_date = start, !.end_date = end] :
        start \in {None, Some(AwareDate(2, 0))},
        end \in {None, Some(AwareDate(2, 0))},
        limit \in {None} \cup {Some(l) : l \in Limits},
        cursor \in Cursors}

Init ==
    /\ \E shapes \in [Slots -> PagingShapes] : table = TableOf(shapes)
    /\ InitRequest

Next ==
    \/ GetAllLaunches(PagingFaults)
    \/ GetLaunchesByDateRange(PagingRanges, PagingFaults)
    \/ FilterLaunches(PagingFilters, PagingFaults)
    \/ GetLaunchById({"none", "get_item"})
    \/ FollowCursor(PagingFaults)

Spec == Init /\ [][Next]_vars

-----------------------------------------------------------------------------
(* A client that pages through a query on a store that does not fail: it    *)
(* goes on asking for the next page as long as a page tells it to           *)

NoFaults == {"none"}

NextPaging ==
    \/ GetAllLaunches(NoFaults)
    \/ GetLaunchesByDateRange(PagingRanges, NoFaults)
    \/ FilterLaunches(PagingFilters, NoFaults)
    \/ FollowCursor(NoFaults)

SpecPaging == Init /\ [][NextPaging]_vars

-----------------------------------------------------------------------------
(* Requests served side by side on one table: a valid launch, a launch of   *)
(* unknown status, and no launch under the other keys                       *)

Served(req, faults) == {[request |-> req, fault |-> fault] : fault \in faults}

(* The requests with the store failures they meet: Get by identifier with  *)
(* none and with a failing get_item, the others with one each               *)
ConnectionRequests ==
    Served(ListRequest(1, None), {"acquire"})
    \cup Served(DateRangeRequest(AwareDate(1, 0), AwareDate(3, 0), 1, None), {"none"})
    \cup Served(FilterRequest(NoFilter(None, None)), {"scan"})
    \cup Served(SummaryRequest, {"table"})
    \cup UNION {Served(GetRequest(key), {"none", "get_item"}) : key \in Keys}

InitConnections ==
    /\ table = [i \in Slots |->
                    ItemOf(i, CASE i = 1 -> Launched(AwareDate(1, 0), "success")
                                [] i = 2 -> Launched(AwareDate(2, 0), "scrubbed")
                                [] OTHER -> Absent)]
    /\ InitRequest

NextConnections ==
    \E r \in Requests :
        \/ Accept(r, ConnectionRequests)
        \/ StoreCall(r)

(* The event loop runs every coroutine that can go on, and a store call     *)
(* returns or raises                                                        *)
SpecConnections ==
    /\ InitConnections
    /\ [][NextConnections]_vars
    /\ \A r \in Requests : WF_vars(StoreCall(r))

-----------------------------------------------------------------------------
(* The five endpoints under every failure of the store, over tables of one  *)
(* valid launch and one of unknown status                                   *)

FaultShapes ==
    {Absent, Launched(AwareDate(1, 0), "success"), Launched(AwareDate(2, 0), "scrubbed")}

InitFaults ==
    /\ \E shapes \in [Slots -> FaultShapes] : table = TableOf(shapes)
    /\ InitRequest

NextFaults ==
    \/ GetAllLaunches(ScanFaults)
    \/ GetLaunchesByDateRange(PagingRanges, ScanFaults)
    \/ FilterLaunches(PagingFilters, ScanFaults)
    \/ GetLaunchById(GetFaults)
    \/ GetLaunchesSummary(ScanFaults)
    \/ FollowCursor(ScanFaults)

SpecFaults == InitFaults /\ [][NextFaults]_vars

-----------------------------------------------------------------------------
(* Queries made again and again on the same table *)

RepeatShapes ==
    {Absent}
    \cup {Launched(dt, "success") : dt \in {AwareDate(1, 0), AwareDate(2, -2), NaiveDate(2)}}

InitRepeat ==
    /\ \E shapes \in [Slots -> RepeatShapes] : table = TableOf(shapes)
    /\ InitRequest

NextRepeat ==
    \/ GetAllLaunches(PagingFaults)
    \/ GetLaunchesByDateRange(PagingRanges, PagingFaults)
    \/ FilterLaunches(PagingFilters, PagingFaults)
    \/ GetLaunchById({"none", "get_item"})
    \/ Repeat({"none", "scan", "get_item"})

SpecRepeat == InitRepeat /\ [][NextRepeat]_vars

-----------------------------------------------------------------------------
(* Filter requests over items that differ in the filtered attributes        *)

(* Variants of one launch: mission "A", status failed, flight number 2, no  *)
(* launch site, a timestamp with another UTC offset, an unparsable date     *)
FilterShapes ==
    LET base == Launched(AwareDate(2, 0), "success") IN
    {Absent, base,
     [base EXCEPT !.mission = Some(Str(<<65>>))],
     [base EXCEPT !.status = Some(Str("failed"))],
     [base EXCEPT !.flight = Some(Decimal(2))],
     [base EXCEPT !.site = None],
     [base EXCEPT !.date = Some(Str(isoformat(AwareDate(3, 1))))],
     [base EXCEPT !.date = Some(Str(<<120>>))]}

(* One filter on a name or the status: "a", "A", rocket "f", failed, "K" *)
NameFilters ==
    LET none == NoFilter(None, None) IN
    {none,
     [none EXCEPT !.mission_name = Some(<<97>>)],
     [none EXCEPT !.mission_name = Some(<<65>>)],
     [none EXCEPT !.rocket_name = Some(<<102>>)],
     [none EXCEPT !.status = Some("failed")],
     [none EXCEPT !.launch_site = Some(SiteK)]}

(* <<start_date, end_date>> and <<flight_number_min, flight_number_max>> *)
FilterDateBounds ==
    {<<start, end>> : start \in {None, Some(AwareDate(3, 0)), Some(AwareDate(1, -2))},
                      end \in {None, Some(AwareDate(3, 0))}}

FilterFlightBounds == {<<min, max>> : min \in {None, Some(1), Some(2)}, max \in {None, Some(1), Some(2)}}

RangeFilters ==
    {[NoFilter(None, None) EXCEPT !.start_date = d[1], !.end_date = d[2]] : d \in FilterDateBounds}
    \cup {[NoFilter(None, None) EXCEPT !.flight_number_min = f[1], !.flight_number_max = f[2]] :
            f \in FilterFlightBounds}

(* Two filters at once: a name with a date bound, the status with a range *)
CombinedFilters ==
    {[NoFilter(None, None) EXCEPT !.mission_name = Some(<<97>>),
                                  !.start_date = Some(AwareDate(1, -2))],
     [NoFilter(None, None) EXCEPT !.status = Some("success"),
                                  !.flight_number_min = Some(1), !.flight_number_max = Some(2)]}

FieldFilters ==
    {[f EXCEPT !.limit = limit] :
        f \in NameFilters \cup RangeFilters \cup CombinedFilters, limit \in {None, Some(1)}}

InitFilter ==
    /\ \E shapes \in [Slots -> FilterShapes] : table = TableOf(shapes)
    /\ InitRequest

NextFilter ==
    \/ FilterLaunches(FieldFilters, PagingFaults)
    \/ FollowCursor(PagingFaults)

SpecFilter == InitFilter /\ [][NextFilter]_vars

-----------------------------------------------------------------------------
(* Summary requests over tables that hold more than TopRockets rockets      *)

(* "F", "G", and a rocket that only the launch of slot i flew: "a", "b", .. *)
RocketG == <<71>>
RocketOf(i) == <<96 + i>>

Flown(rocket, dt, status) ==
    [Launched(dt, status) EXCEPT !.rocket = Some(Str(rocket))]

(* The options of slot i.  The later the launch, the more launches its      *)
(* rocket can have; slot 1 can also hold an early launch of "G" and a       *)
(* launch of "F" of unknown status.                                         *)
SummaryShape(i, option) ==
    CASE option = 0 -> Absent
      [] option = 1 -> Flown(RocketOf(i), AwareDate(1, 0), "success")
      [] option = 2 -> Flown(RocketF, AwareDate(2, 0), "failed")
      [] option = 3 -> Flown(RocketG, AwareDate(3, 0), "upcoming")
      [] option = 4 -> Flown(RocketG, AwareDate(1, 0), "success")
      [] option = 5 -> Flown(RocketF, AwareDate(2, 0), "scrubbed")

SummarySlots == 1..MaxLaunches

SummaryFaults == {"none", "scan"}

InitSummary ==
    /\ \E option1 \in 0..5, options \in [SummarySlots \ {1} -> 0..3] :
        table = [i \in SummarySlots |->
                    ItemOf(i, SummaryShape(i, IF i = 1 THEN option1 ELSE options[i]))]
    /\ InitRequest

NextSummary == GetLaunchesSummary(SummaryFaults)

SpecSummary == InitSummary /\ [][NextSummary]_vars

-----------------------------------------------------------------------------
(* Properties *)

Answered(op) == pc = "done" /\ request.op = op
PageReturned == pc = "done" /\ request.op \in PageOps /\ result.code = 200
ScanCalls == SelectSeq(calls, LAMBDA c : c.op = "scan")

(* What a filter request asks of a launch: substring containment, equal     *)
(* status, timestamp and flight number within the inclusive bounds          *)
NameContains(name, wanted) == IsSet(wanted) => IsSet(name) /\ Contains(Val(name), Val(wanted))
NotBefore(dt, bound) == IsSet(bound) /\ Comparable(dt, Val(bound)) => Instant(dt) >= Instant(Val(bound))
NotAfter(dt, bound) == IsSet(bound) /\ Comparable(dt, Val(bound)) => Instant(dt) <= Instant(Val(bound))
AtLeast(n, bound) == IsSet(bound) => IsSet(n) /\ Val(n) >= Val(bound)
AtMost(n, bound) == IsSet(bound) => IsSet(n) /\ Val(n) <= Val(bound)

NamesAndStatusMeet(launch, filters) ==
    /\ NameContains(Some(launch.mission_name), filters.mission_name)
    /\ NameContains(Some(launch.rocket_name), filters.rocket_name)
    /\ NameContains(launch.launch_site, filters.launch_site)
    /\ IsSet(filters.status) => launch.status = Val(filters.status)

FlightNumberMeets(launch, filters) ==
    /\ AtLeast(launch.flight_number, filters.flight_number_min)
    /\ AtMost(launch.flight_number, filters.flight_number_max)

LaunchDateMeets(launch, filters) ==
    /\ NotBefore(launch.launch_date, filters.start_date)
    /\ NotAfter(launch.launch_date, filters.end_date)

(* C1: every launch of a page that Filter returns satisfies every filter    *)
(* field set in the request: the names contain the wanted substrings, the   *)
(* status is equal, launch_date lies within [start_date, end_date] and      *)
(* flight_number within [flight_number_min, flight_number_max].             *)
C1_ReturnedLaunchesMeetFilters ==
    Answered("filter") /\ PageReturned =>
        \A k \in 1..Len(result.launches) :
            /\ NamesAndStatusMeet(result.launches[k], request.filters)
            /\ LaunchDateMeets(result.launches[k], request.filters)
            /\ FlightNumberMeets(result.launches[k], request.filters)

FlightBoundsInverted(filters) ==
    /\ IsSet(filters.flight_number_min)
    /\ IsSet(filters.flight_number_max)
    /\ Val(filters.flight_number_min) > Val(filters.flight_number_max)

(* C2: a Filter request with flight_number_min > flight_number_max is       *)
(* answered 400 and no scan is issued to the store.                         *)
C2_InvertedFlightBoundsRejected ==
    Answered("filter") /\ FlightBoundsInverted(request.filters) =>
        result.code = 400 /\ ScanCalls = <<>>

DatesInverted(start, end) ==
    /\ IsSet(start)
    /\ IsSet(end)
    /\ Comparable(Val(start), Val(end))
    /\ Instant(Val(start)) >= Instant(Val(end))

RequestDatesInverted ==
    \/ Answered("date_range") /\ DatesInverted(Some(request.start_date), Some(request.end_date))
    \/ Answered("filter") /\ DatesInverted(request.filters.start_date, request.filters.end_date)

(* C3: a date-range request, or a Filter request giving both dates, with    *)
(* start_date >= end_date is answered 400 (not 500) and makes no store call *)
(* at all: no connection is acquired, no scan is issued.                    *)
C3_InvertedDatesRejected == RequestDatesInverted => result.code = 400 /\ calls = <<>>

C3_Witness ==
    /\ Answered("date_range")
    /\ request.start_date = request.end_date
    /\ result.code = 400

Ascending(launches) ==
    \A i, j \in 1..Len(launches) :
        i < j => Instant(launches[i].launch_date) <= Instant(launches[j].launch_date)

Descending(launches) ==
    \A i, j \in 1..Len(launches) :
        i < j => Instant(launches[i].launch_date) >= Instant(launches[j].launch_date)

(* C4: a page of List by date range is ordered by launch timestamp          *)
(* ascending, a page of List or Filter by launch timestamp descending.      *)
C4_PagesSorted ==
    PageReturned =>
        IF request.op = "date_range" THEN Ascending(result.launches)
        ELSE Descending(result.launches)

C4_Witness ==
    /\ PageReturned
    /\ request.op = "date_range"
    /\ Len(result.launches) >= 2
    /\ Instant(result.launches[1].launch_date) < Instant(result.launches[2].launch_date)

Ids(launches) == {launches[k].id : k \in 1..Len(launches)}

(* C5: when a page query is repeated with the cursor its last page gave,    *)
(* on the same store, the new page holds no launch whose identifier is that *)
(* cursor.                                                                  *)
C5_CursorNotReturnedAgain ==
    PageReturned /\ follows => Val(Cursor(request)) \notin Ids(result.launches)

C5_Witness ==
    /\ PageReturned
    /\ follows
    /\ result.launches # <<>>
    /\ Parses(table[SlotOfKey(Val(Cursor(request)))])

ScanKwargs == ScanCalls[1].kwargs
LastOf(items) == items[Len(items)]

(* C6 as claimed: when the scan response carries LastEvaluatedKey, has_more *)
(* is true and the cursor is the identifier of the last raw record the      *)
(* store returned in that response.                                         *)
C6_CursorIsLastReturned ==
    PageReturned /\ HasLastEvaluatedKey(response) =>
        /\ result.has_more
        /\ response["Items"] # <<>>
        /\ result.last_evaluated_key = Some(LastOf(response["Items"]).launch_id.value)

(* C6 as amended: when the scan response carries LastEvaluatedKey, has_more *)
(* is true and the cursor is the identifier of the last raw record the      *)
(* store examined in that scan, whether or not the record passed the filter *)
(* or is malformed.                                                         *)
C6_CursorIsLastExamined ==
    PageReturned /\ HasLastEvaluatedKey(response) =>
        /\ result.has_more
        /\ result.last_evaluated_key = Some(LastOf(Examined(table, ScanKwargs)).launch_id.value)

C6_Witness ==
    /\ PageReturned
    /\ HasLastEvaluatedKey(response)
    /\ response["Items"] # <<>>
    /\ LastOf(Examined(table, ScanKwargs)) # LastOf(response["Items"])
    /\ result.last_evaluated_key = Some(LastOf(Examined(table, ScanKwargs)).launch_id.value)

(* C7: in every page has_more is true exactly when the outgoing cursor is   *)
(* present, and without LastEvaluatedKey in the scan response the cursor is *)
(* absent and has_more is false.                                            *)
C7_HasMoreIffCursor ==
    PageReturned =>
        /\ result.has_more <=> IsSet(result.last_evaluated_key)
        /\ ~HasLastEvaluatedKey(response) => ~result.has_more /\ ~IsSet(result.last_evaluated_key)

C7_Witness ==
    /\ PageReturned
    /\ ~HasLastEvaluatedKey(response)
    /\ response["Items"] # <<>>
    /\ ~result.has_more

ValidItems(items) == SelectSeq(items, Parses)

(* C8: when the scan response holds N valid raw records and any number of   *)
(* malformed ones, the page operation answers with exactly the N normalized *)
(* valid launches and no error.                                             *)
C8_MalformedRecordsSkipped ==
    pc = "done" /\ request.op \in PageOps /\ Has(response, "Items") =>
        /\ result.code = 200
        /\ Len(result.launches) = Len(ValidItems(response["Items"]))
        /\ \A k \in 1..Len(ValidItems(response["Items"])) :
            \E j \in 1..Len(result.launches) :
                result.launches[j] = LaunchResponse(_convert_decimals(ValidItems(response["Items"])[k]))

(* C9: every launch in a result of List, List by date range, Filter or Get  *)
(* by identifier has a non-empty identifier and a status among success,     *)
(* failed, upcoming; a stored record with another status is not returned.   *)
C9_LaunchesWellFormed ==
    pc = "done" =>
        \A k \in 1..Len(result.launches) :
            /\ result.launches[k].id # <<>>
            /\ result.launches[k].status \in LaunchStatus

C9_Witness ==
    /\ PageReturned
    /\ result.launches # <<>>
    /\ \E k \in 1..Len(response["Items"]) : response["Items"][k].status.value \notin LaunchStatus

LimitAsked(req) ==
    IF req.op = "filter"
    THEN (IF IsSet(req.filters.limit) THEN Val(req.filters.limit) ELSE DefaultLimit)
    ELSE req.limit

Later(item, items) ==
    SlotOfKey(item.launch_id.value) > SlotOfKey(LastOf(items).launch_id.value)

(* C10: the limit bounds the raw records the store examines in a call, and  *)
(* so the page: at most limit records are examined and at most limit        *)
(* launches returned.  (The page can be empty with has_more true while      *)
(* matching records lie further in the table: C10_Witness.)                 *)
C10_LimitBoundsExamined ==
    PageReturned =>
        /\ Len(Examined(table, ScanKwargs)) <= LimitAsked(request)
        /\ Len(result.launches) <= LimitAsked(request)

C10_Witness ==
    /\ PageReturned
    /\ result.launches = <<>>
    /\ result.has_more
    /\ \E i \in Slots :
        /\ table[i] # NoItem
        /\ Later(table[i], Examined(table, ScanKwargs))
        /\ Matches(table[i], ScanKwargs)
        /\ Parses(table[i])

Stored(key) == table[SlotOfKey(key)]

(* C11: Get by identifier, the store answering: for an identifier without   *)
(* a record the service returns None and the endpoint answers 404 (not      *)
(* 500); for an identifier with a valid record the endpoint answers 200     *)
(* with that record's launch, whose id is the identifier asked for.         *)
C11_GetByIdFoundOrAbsent ==
    Answered("get") /\ failure = "none" =>
        /\ Stored(request.launch_id) = NoItem =>
            /\ result.code = 404
            /\ result.launches = <<>>
            /\ result.detail = <<"Lanzamiento no encontrado">>
        /\ Stored(request.launch_id) # NoItem /\ Parses(Stored(request.launch_id)) =>
            /\ result.code = 200
            /\ result.launches = <<LaunchResponse(_convert_decimals(Stored(request.launch_id)))>>
            /\ result.launches[1].id = request.launch_id

C11_Witness ==
    /\ Answered("get")
    /\ failure = "none"
    /\ Stored(request.launch_id) = NoItem
    /\ \E i \in Slots : table[i] # NoItem
    /\ result.code = 404

(* C19: Get by identifier, the store answering, on an identifier whose      *)
(* stored record is malformed: the record is not reported absent, the       *)
(* normalization error leaves the service as its generic error and the      *)
(* endpoint answers 500.                                                    *)
C19_MalformedRecordRaises ==
    Answered("get") /\ failure = "none"
        /\ Stored(request.launch_id) # NoItem /\ ~Parses(Stored(request.launch_id)) =>
            /\ result.code = 500
            /\ result.launches = <<>>
            /\ result.detail = <<"Error obteniendo lanzamiento", "ValueError">>

C19_Witness ==
    /\ Answered("get")
    /\ failure = "none"
    /\ Stored(request.launch_id) # NoItem
    /\ ~Parses(Stored(request.launch_id))
    /\ result.code = 500

SummaryReturned == Answered("summary") /\ result.code = 200

StoredLaunches == {i \in DOMAIN table : table[i] # NoItem /\ Parses(table[i])}
StoredWithStatus(status) == {i \in StoredLaunches : table[i].status.value = status}
StoredOfRocket(name) == {i \in StoredLaunches : table[i].rocket_name.value = name}

CountsWithinTotal(summary) ==
    /\ summary.total_launches = Cardinality(StoredLaunches)
    /\ summary.successful_launches = Cardinality(StoredWithStatus("success"))
    /\ \A n \in {summary.successful_launches, summary.failed_launches,
                  summary.upcoming_launches} : 0 <= n /\ n <= summary.total_launches

EmptySummary(summary) ==
    /\ summary.total_launches = 0
    /\ summary.success_rate = 0
    /\ summary.most_used_rockets = <<>>

(* C12 as claimed: the summary of an empty launch set is answered 200 with  *)
(* total 0, success rate 0 and no top rocket; for a non-empty set the       *)
(* success rate (held in hundredths) is successful / total * 100 and every  *)
(* per-status count lies between 0 and total.                               *)
C12_SuccessRateIsRatio ==
    Answered("summary") /\ failure = "none" =>
        /\ result.code = 200
        /\ CountsWithinTotal(result.summary)
        /\ StoredLaunches = {} => EmptySummary(result.summary)
        /\ StoredLaunches # {} =>
            result.summary.success_rate * result.summary.total_launches
                = result.summary.successful_launches * 100 * 100

(* C12 as amended: the same, the success rate being successful / total *    *)
(* 100 rounded to two decimals: the multiple of 0.01 nearest to it.         *)
C12_SuccessRateIsRoundedRatio ==
    Answered("summary") /\ failure = "none" =>
        /\ result.code = 200
        /\ CountsWithinTotal(result.summary)
        /\ StoredLaunches = {} => EmptySummary(result.summary)
        /\ StoredLaunches # {} =>
            2 * Abs(result.summary.success_rate * result.summary.total_launches
                        - result.summary.successful_launches * 100 * 100)
                <= result.summary.total_launches

C12_Witness ==
    /\ SummaryReturned
    /\ result.summary.total_launches = 3
    /\ result.summary.successful_launches = 2
    /\ result.summary.success_rate = 6667

(* List's output for the summary: every valid launch, latest first *)
ListedLaunches == Sort(CollectLaunches(ItemsAfter(table, 0)), TRUE)

FirstSeen(launches, name) ==
    CHOOSE k \in 1..Len(launches) :
        /\ launches[k].rocket_name = name
        /\ \A j \in 1..(k - 1) : launches[j].rocket_name # name

Listed(rockets) == {rockets[k].rocket_name : k \in 1..Len(rockets)}
Unlisted(rockets) ==
    {table[i].rocket_name.value : i \in StoredLaunches} \ Listed(rockets)

(* C13: most_used_rockets holds at most five rockets, each with the number  *)
(* of its launches, ordered by that number descending; no rocket left out   *)
(* has more launches than a listed one; rockets of equal count stand in the *)
(* order in which List's latest-first output first shows them.              *)
C13_MostUsedRockets ==
    SummaryReturned =>
        LET rockets == result.summary.most_used_rockets
            listed == ListedLaunches
        IN
        /\ Len(rockets) <= 5
        /\ \A k \in 1..Len(rockets) :
            /\ rockets[k].count = Cardinality(StoredOfRocket(rockets[k].rocket_name))
            /\ rockets[k].count >= 1
            /\ \A name \in Unlisted(rockets) :
                rockets[k].count >= Cardinality(StoredOfRocket(name))
        /\ \A j, k \in 1..Len(rockets) :
            j < k =>
                /\ rockets[j].count >= rockets[k].count
                /\ rockets[j].rocket_name # rockets[k].rocket_name
                /\ rockets[j].count = rockets[k].count =>
                    FirstSeen(listed, rockets[j].rocket_name)
                        < FirstSeen(listed, rockets[k].rocket_name)

(* Six rockets of one launch each; the one left out is not the last of the  *)
(* table but the last of List's output                                      *)
C13_Witness ==
    /\ SummaryReturned
    /\ Len(result.summary.most_used_rockets) = 5
    /\ Unlisted(result.summary.most_used_rockets) # {}
    /\ table[MaxLaunches] # NoItem
    /\ table[MaxLaunches].rocket_name.value \in Listed(result.summary.most_used_rockets)
    /\ result.summary.most_used_rockets[1].count
            = result.summary.most_used_rockets[5].count

(* The store failed in a call the request made *)
StoreFailed == failure # "none" /\ \E k \in 1..Len(calls) : calls[k].op = failure

ServiceMessage(op) ==
    CASE op = "list"       -> "Error obteniendo lanzamientos"
      [] op = "summary"    -> "Error obteniendo lanzamientos"
      [] op = "date_range" -> "Error obteniendo lanzamientos por fecha"
      [] op = "filter"     -> "Error filtrando lanzamientos"
      [] op = "get"        -> "Error obteniendo lanzamiento"

(* C14: when the store fails in a call of List, List by date range, Filter, *)
(* Get by identifier or Summary (acquiring the connection, looking up the   *)
(* table, scan or get_item), the endpoint answers 500 with the error as     *)
(* detail, not 200, 404 or 400, and the failed call is made once: no store  *)
(* call follows it but the release of the connection.                       *)
C14_StoreFailureIs500 ==
    pc = "done" /\ StoreFailed =>
        /\ result.code = 500
        /\ result.launches = <<>>
        /\ result.detail = <<ServiceMessage(request.op), failure>>
        /\ \A j, k \in 1..Len(calls) :
            calls[j].op = failure /\ j < k => calls[k].op = "release"

C14_Witness ==
    /\ Answered("summary")
    /\ failure = "table"
    /\ StoreFailed
    /\ result.code = 500

FailedByStore(res) == res.code = 500 /\ Len(res.detail) = 2 /\ res.detail[2] \in Faults

(* The launches of a response, as a set *)
LaunchSet(res) == {res.launches[k] : k \in 1..Len(res.launches)}

NoFieldSet(filters) ==
    \A field \in {"mission_name", "rocket_name", "status", "start_date", "end_date",
                  "launch_site", "flight_number_min", "flight_number_max"} :
        filters[field] = None

(* What List answers on this table to the limit and the cursor of req *)
ListAnswer(req, fault) ==
    router_get_all_launches(table, ListRequest(LimitAsked(req), Cursor(req)), fault).http

(* C17: a Filter request with no filter field set issues a scan without     *)
(* FilterExpression and is answered as List is for the same limit and       *)
(* cursor on the same table: the same status code and, when a page is       *)
(* returned, the same launches in the same order, the same cursor and the   *)
(* same has_more.                                                           *)
C17_EmptyFilterIsList ==
    Answered("filter") /\ NoFieldSet(request.filters) =>
        /\ \A k \in 1..Len(ScanCalls) : ~Has(ScanCalls[k].kwargs, "FilterExpression")
        /\ result.code = ListAnswer(request, failure).code
        /\ result.code = 200 =>
            /\ ScanCalls # <<>>
            /\ result.launches = ListAnswer(request, failure).launches
            /\ result.count = ListAnswer(request, failure).count
            /\ result.last_evaluated_key = ListAnswer(request, failure).last_evaluated_key
            /\ result.has_more = ListAnswer(request, failure).has_more

C17_Witness ==
    /\ Answered("filter")
    /\ NoFieldSet(request.filters)
    /\ IsSet(request.filters.limit)
    /\ IsSet(request.filters.last_evaluated_key)
    /\ result.code = 200
    /\ result.has_more
    /\ Len(result.launches) = 2
    /\ Instant(result.launches[1].launch_date) > Instant(result.launches[2].launch_date)

(* The date bounds of a page request, if it has any *)
StartBound(req) ==
    CASE req.op = "date_range" -> Some(req.start_date)
      [] req.op = "filter"     -> req.filters.start_date
      [] OTHER                 -> None

EndBound(req) ==
    CASE req.op = "date_range" -> Some(req.end_date)
      [] req.op = "filter"     -> req.filters.end_date
      [] OTHER                 -> None

(* A query the router accepts: its dates can be compared and are in order *)
ValidQuery(req) ==
    IsSet(StartBound(req)) /\ IsSet(EndBound(req)) =>
        /\ Comparable(Val(StartBound(req)), Val(EndBound(req)))
        /\ Instant(Val(StartBound(req))) < Instant(Val(EndBound(req)))

Within(dt, bound, upper) ==
    IsSet(bound) =>
        /\ Comparable(dt, Val(bound))
        /\ IF upper THEN Instant(dt) <= Instant(Val(bound))
                    ELSE Instant(dt) >= Instant(Val(bound))

(* The valid stored records whose timestamp lies within the bounds of req,  *)
(* the only filter fields that the paging requests set                      *)
MatchingIds(req) ==
    {table[i].launch_id.value : i \in
        {i \in StoredLaunches :
            /\ Within(fromisoformat(table[i].launch_date.value), StartBound(req), FALSE)
            /\ Within(fromisoformat(table[i].launch_date.value), EndBound(req), TRUE)}}

Iterating ==
    /\ pc = "done"
    /\ request.op \in PageOps
    /\ first = None
    /\ ValidQuery(request)

(* The cursor of the page lies further in the table than the one asked with *)
CursorAdvanced ==
    /\ IsSet(result.last_evaluated_key)
    /\ SlotOfKey(Val(result.last_evaluated_key))
            > (IF IsSet(Cursor(request)) THEN SlotOfKey(Val(Cursor(request))) ELSE 0)

CollectedOnce ==
    /\ \A j, k \in 1..Len(collected) : j # k => collected[j] # collected[k]
    /\ MatchingIds(request) \subseteq {collected[k] : k \in 1..Len(collected)}

(* C18: on a store that is not modified and does not fail, a client that    *)
(* starts a List, List by date range or Filter query without cursor and     *)
(* follows the cursors with the same filters and limit is given a page at   *)
(* every call; a page with has_more = true hands out a cursor further in    *)
(* the table, so that a page with has_more = false comes after finitely     *)
(* many calls; and by then the pages have returned every valid stored       *)
(* record matching the filters, none of them twice.                         *)
C18_PaginationCompletes ==
    Iterating =>
        /\ result.code = 200
        /\ result.has_more => CursorAdvanced
        /\ ~result.has_more => CollectedOnce

Holds(r) == inflight[r].conn # 0

ConnectionsScoped ==
    \A r \in Requests :
        /\ inflight[r].stage = "end" => ~Holds(r)
        /\ inflight[r].stage = "run"
                /\ Head(inflight[r].todo) \in {"table", "scan", "get_item", "release"} => Holds(r)
        /\ \A q \in Requests : q # r /\ Holds(r) => inflight[q].conn # inflight[r].conn

(* C16: a request that has acquired a store connection gives it back, after *)
(* a normal return, after a store error in the table lookup, in scan or in  *)
(* get_item, and after a normalization error of Get by identifier; no       *)
(* request ends holding a connection, every store call is made on the       *)
(* connection of its request, and requests served side by side hold         *)
(* different connections.                                                   *)
C16_ConnectionReleased ==
    /\ []ConnectionsScoped
    /\ \A r \in Requests : Holds(r) ~> ~Holds(r)

(* Two requests hold their connections at once; the one that fails in       *)
(* normalization (Get by identifier on the launch of unknown status) has    *)
(* its get_item behind it                                                   *)
C16_Witness ==
    /\ Holds(1)
    /\ Holds(2)
    /\ inflight[1].op = "get"
    /\ inflight[1].fault = "none"
    /\ inflight[1].code = 500
    /\ inflight[1].todo = <<"release">>
    /\ inflight[2].fault = "scan"

====
